---- MODULE Spec2Model ----
(***************************************************************************)
(* A model of the GPT-style decoder of src/model.py and of the data        *)
(* preparation script src/data/proto_test/prepare.py.                      *)
(*                                                                         *)
(* Three specifications share the module:                                  *)
(*   Spec      the life of one GPT object: construction from a             *)
(*             configuration, then forward / generate calls, mode          *)
(*             switches and in-place parameter updates;                    *)
(*   SpecAttn  the arithmetic of one forward pass (embeddings, blocks,     *)
(*             attention, MLP, final norm, logits) on two inputs run       *)
(*             side by side with the same weights;                         *)
(*   SpecPrep  one run of the data preparation script on a corpus.         *)
(***************************************************************************)
EXTENDS Integers, Sequences, FiniteSets, TLC

VARIABLES
    \* ---- the GPT object (Spec) ----
    config,       \* the GPTConfig handed to GPT.__init__
    pc,           \* position of the running constructor / call
    built,        \* submodules registered so far by the constructor
    storage,      \* tensor storages: storage id -> contents
    wte_weight,   \* storage id bound to transformer.word_embedding.weight
    lm_weight,    \* storage id bound to linear_transform.weight
    training,     \* nn.Module.training of the model and all its submodules
    fwd,          \* frame of the running GPT.forward call
    gen,          \* frame of the running GPT.generate call
    outcome,      \* what the last finished call returned or raised
    \* ---- one forward pass in numbers (SpecAttn) ----
    net,          \* weights and shape of the network
    apc,          \* position inside the forward pass
    lay,          \* index of the block being evaluated
    run,          \* the two activations records, run[1] and run[2]
    \* ---- prepare.py (SpecPrep) ----
    ppc,          \* position inside the script
    prep          \* the script's module-level names

gptVars  == <<config, pc, built, storage, wte_weight, lm_weight, training,
              fwd, gen, outcome>>
attnVars == <<net, apc, lay, run>>
prepVars == <<ppc, prep>>
vars     == <<gptVars, attnVars, prepVars>>

-----------------------------------------------------------------------------
(* Bounds of the model.                                                    *)
MaxBlockSize == 2    \* block_size ranges over 1..MaxBlockSize
MaxVocab     == 2    \* vocab_size ranges over 1..MaxVocab
MaxLayers    == 1    \* n_layer ranges over 0..MaxLayers
MaxNewTokens == 2    \* max_new_tokens ranges over 0..MaxNewTokens

-----------------------------------------------------------------------------
(* Python's None and the values that may stand in its place.               *)
None    == <<>>
Some(v) == <<v>>
Val(x)  == x[1]

Last(s, n) == SubSeq(s, Len(s) - n + 1, Len(s))      \* s[-n:], 1 <= n <= len

RECURSIVE SeqsUpTo(_, _)
SeqsUpTo(S, n) ==
    IF n = 0 THEN {<<>>}
    ELSE LET shorter == SeqsUpTo(S, n - 1)
         IN  shorter \cup {Append(s, x) : s \in {t \in shorter : Len(t) = n - 1}, x \in S}

-----------------------------------------------------------------------------
(* GPTConfig: every field may be given as None by the caller.  dropout is   *)
(* in percent.  The bias flag is left out: in GPT.__init__ it only decides  *)
(* whether the Linear layers carry a bias vector.                           *)
GPTConfig ==
    [block_size : {None} \cup {Some(n) : n \in 1..MaxBlockSize},
     vocab_size : {None} \cup {Some(n) : n \in 1..MaxVocab},
     n_layer    : {None} \cup {Some(n) : n \in 0..MaxLayers},
     n_head     : {None} \cup {Some(n) : n \in {0, 1, 2}},
     n_embed    : {None} \cup {Some(n) : n \in {1, 2}},
     dropout    : {None, Some(0), Some(50)}]

NoFwd == [idx |-> <<>>, targets |-> FALSE, caller |-> "none",
          stages |-> <<>>, layer |-> 0, dropped |-> {}]
NoGen == [seed |-> <<>>, N |-> 0, i |-> 0, idx |-> <<>>, idx_truncated |-> <<>>]
NoOutcome == [op |-> "none", status |-> "none", err |-> "none", value |-> <<>>,
              logits_len |-> 0, loss |-> None, via |-> "none"]

GptIdle ==
    /\ config = [block_size |-> None, vocab_size |-> None, n_layer |-> None,
                 n_head |-> None, n_embed |-> None, dropout |-> None]
    /\ pc = "off"
    /\ built = <<>>
    /\ storage = <<>>
    /\ wte_weight = 0
    /\ lm_weight = 0
    /\ training = FALSE
    /\ fwd = NoFwd
    /\ gen = NoGen
    /\ outcome = NoOutcome

AttnIdle ==
    /\ net = <<>>
    /\ apc = "off"
    /\ lay = 0
    /\ run = <<>>

PrepIdle ==
    /\ ppc = "off"
    /\ prep = <<>>

-----------------------------------------------------------------------------
(* GPT.__init__                                                            *)

Init ==
    /\ config \in GPTConfig
    /\ pc = "init_validate"
    /\ built = <<>>
    /\ storage = <<>>
    /\ wte_weight = 0
    /\ lm_weight = 0
    /\ training = TRUE                \* nn.Module.__init__ sets training = True
    /\ fwd = NoFwd
    /\ gen = NoGen
    /\ outcome = NoOutcome
    /\ AttnIdle
    /\ PrepIdle

Raise(op, e) ==
    /\ outcome' = [NoOutcome EXCEPT !.op = op, !.status = "raised", !.err = e]

\* lines 103-107: the five fields the constructor asserts to be present
ValidationOk(c) ==
    /\ c.vocab_size # None
    /\ c.block_size # None
    /\ c.n_embed # None
    /\ c.n_layer # None
    /\ c.dropout # None

InitValidate ==
    /\ pc = "init_validate"
    /\ IF ValidationOk(config)
       THEN /\ pc' = "init_embeddings"
            /\ UNCHANGED outcome
       ELSE /\ pc' = "init_failed"
            /\ Raise("__init__", "AssertionError")
    /\ UNCHANGED <<config, built, storage, wte_weight, lm_weight, training, fwd, gen>>
    /\ UNCHANGED <<attnVars, prepVars>>

\* lines 111-113: the two embedding tables and the dropout layer.  The token
\* embedding gets storage 1.
InitEmbeddings ==
    /\ pc = "init_embeddings"
    /\ built' = built \o <<"word_embedding", "positional_embedding", "dropout">>
    /\ storage' = <<0>>
    /\ wte_weight' = 1
    /\ pc' = "init_blocks"
    /\ UNCHANGED <<config, lm_weight, training, fwd, gen, outcome>>
    /\ UNCHANGED <<attnVars, prepVars>>

NumBlocks == Len(SelectSeq(built, LAMBDA m : m = "block"))

\* line 34, evaluated by SelfAttention.__init__ of every Block: the error the
\* expression  assert config.n_embed % config.n_head == 0  ends with, or "none"
HeadCheck(c) ==
    IF c.n_head = None THEN "TypeError"
    ELSE IF Val(c.n_head) = 0 THEN "ZeroDivisionError"
    ELSE IF Val(c.n_embed) % Val(c.n_head) # 0 THEN "AssertionError"
    ELSE "none"

\* line 114: [Block(config) for _ in range(config.n_layer)]
InitBlocks ==
    /\ pc = "init_blocks"
    /\ IF NumBlocks < Val(config.n_layer)
       THEN IF HeadCheck(config) = "none"
            THEN /\ built' = Append(built, "block")
                 /\ pc' = "init_blocks"
                 /\ UNCHANGED outcome
            ELSE /\ pc' = "init_failed"
                 /\ Raise("__init__", HeadCheck(config))
                 /\ UNCHANGED built
       ELSE /\ pc' = "init_head"
            /\ UNCHANGED <<built, outcome>>
    /\ UNCHANGED <<config, storage, wte_weight, lm_weight, training, fwd, gen>>
    /\ UNCHANGED <<attnVars, prepVars>>

\* lines 115-117: the final LayerNorm and the output projection, which gets
\* storage 2
InitHead ==
    /\ pc = "init_head"
    /\ built' = built \o <<"layer_norm", "linear_transform">>
    /\ storage' = Append(storage, 0)
    /\ lm_weight' = 2
    /\ pc' = "init_tie"
    /\ UNCHANGED <<config, wte_weight, training, fwd, gen, outcome>>
    /\ UNCHANGED <<attnVars, prepVars>>

\* the tying left out: the embedding keeps the storage it was created with
TiedWeight_Untied(wte, lm) == wte

\* line 119: the storage word_embedding.weight is bound to after
\*   self.transformer.word_embedding.weight = self.linear_transform.weight
TiedWeight(wte, lm) == lm

InitTie ==
    /\ pc = "init_tie"
    /\ wte_weight' = TiedWeight(wte_weight, lm_weight)
    /\ pc' = "init_weights"
    /\ UNCHANGED <<config, built, storage, lm_weight, training, fwd, gen, outcome>>
    /\ UNCHANGED <<attnVars, prepVars>>

\* the contents of a storage, reduced to two values that can be told apart
WeightVals == {0, 1}

\* lines 120-123: self.apply(self._init_weights) and the re-initialisation of
\* the project.weight parameters draw new contents into the existing storages
InitWeights ==
    /\ pc = "init_weights"
    /\ \E a, b \in WeightVals :
          storage' = [storage EXCEPT ![wte_weight] = a, ![lm_weight] = b]
    /\ pc' = "init_done"
    /\ UNCHANGED <<config, built, wte_weight, lm_weight, training, fwd, gen, outcome>>
    /\ UNCHANGED <<attnVars, prepVars>>

\* line 125, and the return of the constructor
InitDone ==
    /\ pc = "init_done"
    /\ pc' = "idle"
    /\ UNCHANGED <<config, built, storage, wte_weight, lm_weight, training, fwd, gen, outcome>>
    /\ UNCHANGED <<attnVars, prepVars>>

-----------------------------------------------------------------------------
(* GPT.forward, lines 142-159.  The numbers are left to SpecAttn; here a   *)
(* call is followed through its stages, its failures and its results.      *)

Tokens == 0..(Val(config.vocab_size) - 1)

\* the token sequences callers hand in: any length up to block_size + 1
Inputs == SeqsUpTo(Tokens, Val(config.block_size) + 1)

\* nn.Dropout(p) changes its input only in training mode and with p > 0
DropActs == training /\ Val(config.dropout) > 0

Frame(idx, targets, caller) ==
    [idx |-> idx, targets |-> targets, caller |-> caller,
     stages |-> <<>>, layer |-> 0, dropped |-> {}]

\* an exception leaves forward; inside generate it leaves generate as well
FwdRaise(e) ==
    /\ pc' = "returned"
    /\ Raise(IF fwd.caller = "generate" THEN "generate" ELSE "forward", e)
    /\ UNCHANGED <<fwd, gen>>

CallForward ==
    /\ pc = "idle"
    /\ \E idx \in Inputs, targets \in BOOLEAN :
          fwd' = Frame(idx, targets, "user")
    /\ pc' = "fwd_assert"
    /\ outcome' = NoOutcome
    /\ UNCHANGED <<config, built, storage, wte_weight, lm_weight, training, gen>>
    /\ UNCHANGED <<attnVars, prepVars>>

\* the assertion off by one
FwdAssertOk_OffByOne(t, block_size) == t <= block_size + 1

\* line 145: assert t <= self.config.block_size
FwdAssertOk(t, block_size) == t <= block_size

FwdAssert ==
    /\ pc = "fwd_assert"
    /\ IF FwdAssertOk(Len(fwd.idx), Val(config.block_size))
       THEN /\ pc' = "fwd_embed"
            /\ UNCHANGED <<fwd, gen, outcome>>
       ELSE FwdRaise("AssertionError")
    /\ UNCHANGED <<config, built, storage, wte_weight, lm_weight, training>>
    /\ UNCHANGED <<attnVars, prepVars>>

\* lines 146-149: token and position lookups and the embedding dropout; the
\* position table has block_size rows
FwdEmbed ==
    /\ pc = "fwd_embed"
    /\ IF Len(fwd.idx) > Val(config.block_size)
       THEN FwdRaise("IndexError")
       ELSE /\ fwd' = [fwd EXCEPT
                         !.stages = @ \o <<"word_embedding", "positional_embedding", "dropout">>,
                         !.dropped = @ \cup (IF DropActs THEN {"dropout"} ELSE {})]
            /\ pc' = "fwd_blocks"
            /\ UNCHANGED <<gen, outcome>>
    /\ UNCHANGED <<config, built, storage, wte_weight, lm_weight, training>>
    /\ UNCHANGED <<attnVars, prepVars>>

\* lines 150-151: the blocks in order; each holds the attention dropout, the
\* residual dropout (lines 60, 63) and the MLP dropout (line 79)
FwdBlocks ==
    /\ pc = "fwd_blocks"
    /\ IF fwd.layer < NumBlocks
       THEN /\ fwd' = [fwd EXCEPT
                         !.stages = Append(@, "block"),
                         !.layer = @ + 1,
                         !.dropped = @ \cup (IF DropActs
                                             THEN {"attn_dropout", "resid_dropout", "mlp.dropout"}
                                             ELSE {})]
            /\ pc' = "fwd_blocks"
       ELSE /\ pc' = "fwd_head"
            /\ UNCHANGED fwd
    /\ UNCHANGED <<config, built, storage, wte_weight, lm_weight, training, gen, outcome>>
    /\ UNCHANGED <<attnVars, prepVars>>

\* lines 152-159: final norm, then logits for every position and a loss, or
\* logits for the last position x[:, [-1], :] alone, which an empty sequence
\* does not have
FwdHead ==
    /\ pc = "fwd_head"
    /\ IF ~fwd.targets /\ Len(fwd.idx) = 0
       THEN FwdRaise("IndexError")
       ELSE /\ fwd' = [fwd EXCEPT !.stages = @ \o <<"layer_norm", "linear_transform">>]
            /\ IF fwd.caller = "generate"
               THEN /\ pc' = "gen_sample"
                    /\ UNCHANGED outcome
               ELSE /\ pc' = "returned"
                    /\ outcome' = [NoOutcome EXCEPT
                          !.op = "forward", !.status = "returned",
                          !.logits_len = IF fwd.targets THEN Len(fwd.idx) ELSE 1,
                          !.loss = IF fwd.targets THEN Some("cross_entropy") ELSE None]
            /\ UNCHANGED gen
    /\ UNCHANGED <<config, built, storage, wte_weight, lm_weight, training>>
    /\ UNCHANGED <<attnVars, prepVars>>

-----------------------------------------------------------------------------
(* GPT.generate, lines 161-169                                             *)

CallGenerate ==
    /\ pc = "idle"
    /\ \E seed \in Inputs, N \in 0..MaxNewTokens :
          gen' = [seed |-> seed, N |-> N, i |-> 0, idx |-> seed, idx_truncated |-> <<>>]
    /\ pc' = "gen_loop"
    /\ outcome' = NoOutcome
    /\ UNCHANGED <<config, built, storage, wte_weight, lm_weight, training, fwd>>
    /\ UNCHANGED <<attnVars, prepVars>>

\* one round too many
LoopContinues_OffByOne(i, max_new_tokens) == i <= max_new_tokens

\* line 162: for _ in range(max_new_tokens), after i rounds
LoopContinues(i, max_new_tokens) == i < max_new_tokens

\* the slice idx[:, :block_size] in place of idx[:, -block_size:]
Truncate_KeepFirst(idx, block_size) ==
    IF Len(idx) <= block_size THEN idx ELSE SubSeq(idx, 1, block_size)

\* line 163: idx if idx.size(1) <= block_size else idx[:, -block_size:]
Truncate(idx, block_size) ==
    IF Len(idx) <= block_size THEN idx ELSE Last(idx, block_size)

\* lines 162-164, and line 169 once the rounds are used up
GenLoop ==
    /\ pc = "gen_loop"
    /\ IF LoopContinues(gen.i, gen.N)
       THEN /\ gen' = [gen EXCEPT !.idx_truncated = Truncate(gen.idx, Val(config.block_size))]
            /\ fwd' = Frame(Truncate(gen.idx, Val(config.block_size)), FALSE, "generate")
            /\ pc' = "fwd_assert"
            /\ UNCHANGED outcome
       ELSE /\ pc' = "returned"
            /\ outcome' = [NoOutcome EXCEPT
                  !.op = "generate", !.status = "returned", !.value = gen.idx]
            /\ UNCHANGED <<fwd, gen>>
    /\ UNCHANGED <<config, built, storage, wte_weight, lm_weight, training>>
    /\ UNCHANGED <<attnVars, prepVars>>

\* line 168: torch.cat((idx, idx_next), dim=1)
Cat(idx, idx_next) == Append(idx, idx_next)

\* lines 165-168: softmax gives every token a probability, multinomial draws one
GenSample ==
    /\ pc = "gen_sample"
    /\ \E idx_next \in Tokens :
          gen' = [gen EXCEPT !.idx = Cat(@, idx_next), !.i = @ + 1]
    /\ pc' = "gen_loop"
    /\ UNCHANGED <<config, built, storage, wte_weight, lm_weight, training, fwd, outcome>>
    /\ UNCHANGED <<attnVars, prepVars>>

-----------------------------------------------------------------------------
(* What the surroundings of the model do between calls.                    *)

\* the caller takes the result of the call that has ended
Resume ==
    /\ pc = "returned"
    /\ pc' = "idle"
    /\ fwd' = NoFwd
    /\ gen' = NoGen
    /\ outcome' = NoOutcome
    /\ UNCHANGED <<config, built, storage, wte_weight, lm_weight, training>>
    /\ UNCHANGED <<attnVars, prepVars>>

\* model.train() / model.eval() of nn.Module
SetMode ==
    /\ pc = "idle"
    /\ training' = ~training
    /\ UNCHANGED <<config, pc, built, storage, wte_weight, lm_weight, fwd, gen, outcome>>
    /\ UNCHANGED <<attnVars, prepVars>>

\* the storage a parameter name of the model is bound to
Param(name) ==
    IF name = "transformer.word_embedding.weight" THEN wte_weight ELSE lm_weight

\* an optimizer step writes in place into the storage of a parameter, reached
\* through either of the two names
OptimizerStep ==
    /\ pc = "idle"
    /\ \E name \in {"transformer.word_embedding.weight", "linear_transform.weight"},
          v \in WeightVals :
          /\ storage[Param(name)] # v
          /\ storage' = [storage EXCEPT ![Param(name)] = v]
          /\ outcome' = [NoOutcome EXCEPT !.op = "optimizer.step", !.status = "returned",
                                          !.via = name, !.value = Some(v)]
    /\ UNCHANGED <<config, pc, built, wte_weight, lm_weight, training, fwd, gen>>
    /\ UNCHANGED <<attnVars, prepVars>>

Next ==
    \/ InitValidate
    \/ InitEmbeddings
    \/ InitBlocks
    \/ InitHead
    \/ InitTie
    \/ InitWeights
    \/ InitDone
    \/ CallForward
    \/ FwdAssert
    \/ FwdEmbed
    \/ FwdBlocks
    \/ FwdHead
    \/ CallGenerate
    \/ GenLoop
    \/ GenSample
    \/ Resume
    \/ SetMode
    \/ OptimizerStep

Spec == Init /\ [][Next]_vars

-----------------------------------------------------------------------------
(* Claims about the GPT object, checked under Spec.                        *)

InConstructor ==
    pc \in {"init_validate", "init_embeddings", "init_blocks", "init_head",
            "init_tie", "init_weights", "init_done", "init_failed"}
Constructed == ~InConstructor
InForward == pc \in {"fwd_assert", "fwd_embed", "fwd_blocks", "fwd_head"}
GenerateEnded == pc = "returned" /\ outcome.op = "generate"

\* what a finished generate call must have returned
GenerateResultOk ==
    /\ outcome.status = "returned"
    /\ Len(outcome.value) = Len(gen.seed) + gen.N
    /\ SubSeq(outcome.value, 1, Len(gen.seed)) = gen.seed
    /\ \A j \in (Len(gen.seed) + 1)..Len(outcome.value) :
          outcome.value[j] \in 0..(Val(config.vocab_size) - 1)
    /\ (gen.N = 0 => outcome.value = gen.seed)

\* C1 as stated: for every seed of length <= block_size and every N >= 0,
\* generate(seed, N) returns a sequence of length len(seed) + N that starts
\* with the seed and continues with N token ids in [0, vocab_size); with
\* N = 0 it returns the seed unchanged.
C1_AnySeedUpToBlockSize ==
    (GenerateEnded /\ Len(gen.seed) <= Val(config.block_size)) => GenerateResultOk

\* C1 amended: the same for every seed of length between 1 and block_size;
\* and with N = 0 every seed, the empty one too, comes back unchanged.
C1_NonEmptySeed ==
    /\ (GenerateEnded /\ Len(gen.seed) \in 1..Val(config.block_size)) => GenerateResultOk
    /\ (GenerateEnded /\ gen.N = 0) => (outcome.status = "returned" /\ outcome.value = gen.seed)

C1_Witness ==
    /\ GenerateEnded
    /\ outcome.status = "returned"
    /\ Len(gen.seed) \in 1..Val(config.block_size)
    /\ gen.N >= 2
    /\ Len(outcome.value) = Len(gen.seed) + gen.N

\* C2: at every step of generate the context handed to forward is the last
\* block_size tokens of the running sequence when that is longer than
\* block_size and the whole running sequence otherwise, also for a seed longer
\* than block_size, so the context is never longer than block_size; and the
\* running sequence is never shortened: it is the seed plus one token a round.
C2_ContextIsLastBlock ==
    /\ (InForward /\ fwd.caller = "generate") =>
          /\ fwd.idx = gen.idx_truncated
          /\ Len(fwd.idx) <= Val(config.block_size)
          /\ fwd.idx = IF Len(gen.idx) > Val(config.block_size)
                       THEN SubSeq(gen.idx, Len(gen.idx) - Val(config.block_size) + 1,
                                   Len(gen.idx))
                       ELSE gen.idx
    /\ (pc \in {"gen_loop", "gen_sample"} \/ (InForward /\ fwd.caller = "generate")) =>
          /\ Len(gen.idx) = Len(gen.seed) + gen.i
          /\ SubSeq(gen.idx, 1, Len(gen.seed)) = gen.seed

C2_Witness ==
    /\ pc = "fwd_head"
    /\ fwd.caller = "generate"
    /\ Len(gen.seed) > Val(config.block_size)
    /\ gen.i >= 1
    /\ Len(fwd.idx) = Val(config.block_size)
    /\ fwd.idx # SubSeq(gen.idx, 1, Val(config.block_size))

\* C4: forward on a sequence longer than block_size fails at once with an
\* AssertionError, before any embedding lookup or block has run and with the
\* model's state untouched; on a sequence of length <= block_size the
\* assertion passes and the call goes on to the embeddings.
C4_AssertBeforeAnything ==
    [][pc = "fwd_assert" =>
         IF Len(fwd.idx) > Val(config.block_size)
         THEN /\ pc' = "returned"
              /\ outcome'.status = "raised"
              /\ outcome'.err = "AssertionError"
              /\ fwd.stages = <<>>
              /\ fwd'.stages = <<>>
              /\ UNCHANGED <<config, built, storage, wte_weight, lm_weight, training>>
         ELSE /\ pc' = "fwd_embed"
              /\ outcome'.status # "raised"]_vars

C4_Witness ==
    /\ pc = "returned"
    /\ outcome.op = "forward"
    /\ outcome.err = "AssertionError"
    /\ Len(fwd.idx) > Val(config.block_size)
    /\ fwd.stages = <<>>

\* C5: for every configuration, construction succeeds only if n_embed is
\* divisible by n_head.
C5_DivisibleOrFails ==
    (Constructed /\ config.n_head # None /\ Val(config.n_head) > 0) =>
        Val(config.n_embed) % Val(config.n_head) = 0

\* C6: construction fails when any of block_size, vocab_size, n_layer, n_head,
\* n_embed, dropout is missing or invalid (not a positive integer; dropout not
\* in [0, 1)): no model is produced from such a configuration.
C6_MissingOrInvalidFails ==
    Constructed =>
        /\ \A f \in {"block_size", "vocab_size", "n_layer", "n_head", "n_embed", "dropout"} :
              config[f] # None
        /\ \A f \in {"block_size", "vocab_size", "n_layer", "n_head", "n_embed"} :
              Val(config[f]) >= 1
        /\ Val(config.dropout) \in 0..99

\* C7: once construction has finished, and whatever updates and calls follow,
\* word_embedding.weight and linear_transform.weight are one and the same
\* storage, and a value written through either name is read through both.
C7_WeightsTied ==
    Constructed =>
        /\ wte_weight = lm_weight
        /\ storage[wte_weight] = storage[lm_weight]
        /\ outcome.op = "optimizer.step" =>
              /\ storage[wte_weight] = Val(outcome.value)
              /\ storage[lm_weight] = Val(outcome.value)

C7_Witness ==
    /\ pc = "idle"
    /\ outcome.op = "optimizer.step"
    /\ outcome.via = "linear_transform.weight"
    /\ storage[wte_weight] = Val(outcome.value)
    /\ storage[wte_weight] # storage[1]

\* C8: in every forward call made by generate, whatever the configured
\* dropout, no dropout layer changes its input.
C8_NoDropoutInGenerate ==
    fwd.caller = "generate" => fwd.dropped = {}

-----------------------------------------------------------------------------
(* One forward pass in numbers.  Tensors are integer arrays indexed from 1  *)
(* (position t of the code is index t + 1), the batch holds the one         *)
(* sequence, dropout is the configured default 0.0 (every dropout layer is  *)
(* the identity) and bias is the default False.  The real-valued kernels    *)
(* of the substrate are replaced by integer ones of the same shape:         *)
(* LayerNorm centres a feature vector and divides by its deviation in      *)
(* fixed point, square roots are rounded down,                              *)
(* GELU is cut off at zero, exp is a power of two of the clamped argument,  *)
(* and a softmax row is kept as numerators over a common denominator.       *)

MaxCtx        == 3   \* block_size of the network; inputs have 1..MaxCtx tokens
MaxAttnLayers == 2   \* n_layer ranges over 1..MaxAttnLayers

\* the shapes and the weight settings tried
AttnShapes  == {[n_embed |-> 2, n_head |-> 1, vocab_size |-> 2],
                [n_embed |-> 2, n_head |-> 2, vocab_size |-> 2],
                [n_embed |-> 4, n_head |-> 2, vocab_size |-> 2]}
WeightSeeds == {1, 2}

RECURSIVE SumTo(_, _)
SumTo(f, n) == IF n = 0 THEN 0 ELSE f[n] + SumTo(f, n - 1)   \* f[1] + ... + f[n]

Dot(a, b) == SumTo([c \in 1..Len(a) |-> a[c] * b[c]], Len(a))

\* a rows x cols weight filled the way a random draw would: entries in -1..1
WeightOf(seed, id, rows, cols) ==
    [o \in 1..rows |-> [c \in 1..cols |-> ((2 * o + c + o * c * seed + id) % 3) - 1]]

\* the parameters GPT.__init__ creates; the output projection shares wte
Network(seed, vocab_size, n_embed, n_head, n_layer) ==
    [block_size |-> MaxCtx, vocab_size |-> vocab_size, n_embed |-> n_embed,
     n_head |-> n_head, n_layer |-> n_layer, targets |-> FALSE,
     wte |-> WeightOf(seed, 1, vocab_size, n_embed),
     wpe |-> WeightOf(seed, 2, MaxCtx, n_embed),
     blocks |-> [l \in 1..n_layer |->
                   [attn    |-> WeightOf(seed, 4 * l, 3 * n_embed, n_embed),
                    proj    |-> WeightOf(seed, 4 * l + 1, n_embed, n_embed),
                    fc      |-> WeightOf(seed, 4 * l + 2, 4 * n_embed, n_embed),
                    project |-> WeightOf(seed, 4 * l + 3, n_embed, 4 * n_embed)]]]

\* nn.Linear without bias: y[t] = W x[t]
Linear(W, x) == [t \in 1..Len(x) |-> [o \in 1..Len(W) |-> Dot(W[o], x[t])]]

\* the integer square root of m, found by bisection in lo..hi
RECURSIVE ISqrtIn(_, _, _)
ISqrtIn(m, lo, hi) ==
    IF lo >= hi THEN lo
    ELSE LET mid == (lo + hi + 1) \div 2
         IN  IF mid * mid <= m THEN ISqrtIn(m, mid, hi) ELSE ISqrtIn(m, lo, mid - 1)

ISqrt(m) == ISqrtIn(m, 0, IF m < 46340 THEN m ELSE 46340)

\* nn.LayerNorm over the last dimension, position by position: each feature
\* less the mean, over the standard deviation, in units of a quarter
\* (d is n times the deviation from the mean; weight 1, no bias)
LayerNorm(x) ==
    [t \in 1..Len(x) |->
        LET n   == Len(x[t])
            d   == [c \in 1..n |-> n * x[t][c] - SumTo(x[t], n)]
            std == ISqrt(SumTo([c \in 1..n |-> d[c] * d[c]], n) \div n)
        IN  [c \in 1..n |-> IF std = 0 THEN 0 ELSE (4 * d[c]) \div std]]

\* nn.GELU, element by element
Gelu(x) == [t \in 1..Len(x) |-> [c \in 1..Len(x[t]) |-> IF x[t][c] > 0 THEN x[t][c] ELSE 0]]

Add(x, y) == [t \in 1..Len(x) |-> [c \in 1..Len(x[t]) |-> x[t][c] + y[t][c]]]

\* lines 48-55: split(n_embed, dim=2), view(B, T, n_head, head_size), transpose(1, 2):
\* part 0 is q, 1 is k, 2 is v; the result is indexed [head][position][feature]
Heads(attn_layer, part, n_embed, n_head) ==
    LET hs == n_embed \div n_head
    IN  [h \in 1..n_head |->
           [t \in 1..Len(attn_layer) |->
              [d \in 1..hs |-> attn_layer[t][part * n_embed + (h - 1) * hs + d]]]]

\* 10 * sqrt(n), rounded down
Root10(n) == ISqrt(100 * n)

\* line 57: (q @ k.transpose(-2, -1)) * (1.0 / math.sqrt(k.size(-1)))
Scores(q, k) ==
    [h \in 1..Len(q) |->
       [i \in 1..Len(q[h]) |->
          [j \in 1..Len(k[h]) |->
             [inf |-> FALSE, val |-> (Dot(q[h][i], k[h][j]) * 10) \div Root10(Len(q[h][i]))]]]]

\* the buffer with every entry 1: no position is hidden
Tril_AllOnes(i, j) == 1

\* lines 42-43: torch.tril(torch.ones(block_size, block_size)), entry (i, j)
Tril(i, j) == IF j <= i THEN 1 ELSE 0

\* line 58: attn.masked_fill(self.bias[:, :, :T, :T] == 0, float('-inf'))
MaskedFill(att) ==
    [h \in 1..Len(att) |->
       [i \in 1..Len(att[h]) |->
          [j \in 1..Len(att[h][i]) |->
             IF Tril(i, j) = 0 THEN [inf |-> TRUE, val |-> 0] ELSE att[h][i][j]]]]

Clamp(s, lo, hi) == IF s < lo THEN lo ELSE IF s > hi THEN hi ELSE s

\* exp of a score: 0 for -inf, positive and growing otherwise
ExpOf(s) == IF s.inf THEN 0 ELSE 2 ^ (Clamp(s.val \div 10, -3, 3) + 3)

\* line 59: F.softmax(attn, dim=-1); row i of head h is num[j] / den
Softmax(att) ==
    [h \in 1..Len(att) |->
       [i \in 1..Len(att[h]) |->
          LET e == [j \in 1..Len(att[h][i]) |-> ExpOf(att[h][i][j])]
          IN  [num |-> e, den |-> SumTo(e, Len(e))]]]

\* line 61: attn @ v
WeightedSum(p, v) ==
    [h \in 1..Len(p) |->
       [i \in 1..Len(p[h]) |->
          [d \in 1..Len(v[h][i]) |->
             SumTo([j \in 1..Len(v[h]) |-> p[h][i].num[j] * v[h][j][d]], Len(v[h]))
                \div p[h][i].den]]]

\* line 62: y.transpose(1, 2).contiguous().view(B, T, C)
MergeHeads(y) ==
    LET hs == Len(y[1][1])
    IN  [t \in 1..Len(y[1]) |->
           [c \in 1..(Len(y) * hs) |-> y[((c - 1) \div hs) + 1][t][((c - 1) % hs) + 1]]]

\* lines 147-149: word_emb + pos_emb
Embed(n, idx) ==
    [t \in 1..Len(idx) |-> [c \in 1..n.n_embed |-> n.wte[idx[t] + 1][c] + n.wpe[t][c]]]

\* lines 154, 157: linear_transform, whose weight is the token embedding table
Logits(n, x, targets) ==
    IF targets THEN Linear(n.wte, x) ELSE Linear(n.wte, <<x[Len(x)]>>)

\* the activations of one pass: the input, the residual stream x, the value
\* h being worked on inside a sub-layer, the attention tensors, what the
\* attention layer returned (out), the logits and the stages gone through
NoAct == [idx |-> <<>>, x |-> <<>>, h |-> <<>>, q |-> <<>>, k |-> <<>>, v |-> <<>>,
          att |-> <<>>, y |-> <<>>, out |-> <<>>, logits |-> <<>>, stages |-> <<>>]

InitAttn ==
    /\ GptIdle
    /\ PrepIdle
    /\ \E seed \in WeightSeeds, shape \in AttnShapes,
          n_layer \in 1..MaxAttnLayers, targets \in BOOLEAN :
          /\ net = [Network(seed, shape.vocab_size, shape.n_embed, shape.n_head, n_layer)
                       EXCEPT !.targets = targets]
          \* the inputs: a sequence and the same sequence with one token replaced
          /\ \E a \in SeqsUpTo(0..(shape.vocab_size - 1), MaxCtx) \ {<<>>},
                j \in 1..MaxCtx, tok \in 0..(shape.vocab_size - 1) :
                /\ j <= Len(a)
                /\ tok # a[j]
                /\ run = <<[NoAct EXCEPT !.idx = a],
                           [NoAct EXCEPT !.idx = [a EXCEPT ![j] = tok]]>>
    /\ apc = "embed"
    /\ lay = 1

\* the same step of the code taken on both inputs
Both(r1, r2, next) ==
    /\ run' = <<r1, r2>>
    /\ apc' = next
    /\ UNCHANGED <<net, lay>>
    /\ UNCHANGED <<gptVars, prepVars>>

Blk == net.blocks[lay]

\* lines 144-149 of GPT.forward
AEmbed ==
    /\ apc = "embed"
    /\ LET F(r) == [r EXCEPT !.x = Embed(net, r.idx),
                             !.stages = <<"word_embedding", "positional_embedding", "dropout">>]
       IN  Both(F(run[1]), F(run[2]), "ln_1")

\* line 93: self.ln_1(x)
ALn1 ==
    /\ apc = "ln_1"
    /\ LET F(r) == [r EXCEPT !.h = LayerNorm(r.x), !.stages = Append(@, "ln_1")]
       IN  Both(F(run[1]), F(run[2]), "attn")

\* line 47: self.attn(x)
AAttn ==
    /\ apc = "attn"
    /\ LET F(r) == [r EXCEPT !.h = Linear(Blk.attn, r.h), !.stages = Append(@, "attn")]
       IN  Both(F(run[1]), F(run[2]), "split")

\* lines 48-55
ASplit ==
    /\ apc = "split"
    /\ LET F(r) == [r EXCEPT !.q = Heads(r.h, 0, net.n_embed, net.n_head),
                             !.k = Heads(r.h, 1, net.n_embed, net.n_head),
                             !.v = Heads(r.h, 2, net.n_embed, net.n_head),
                             !.stages = @ \o <<"split", "heads">>]
       IN  Both(F(run[1]), F(run[2]), "scores")

\* line 57
AScores ==
    /\ apc = "scores"
    /\ LET F(r) == [r EXCEPT !.att = Scores(r.q, r.k), !.stages = Append(@, "scores")]
       IN  Both(F(run[1]), F(run[2]), "mask")

\* line 58
AMask ==
    /\ apc = "mask"
    /\ LET F(r) == [r EXCEPT !.att = MaskedFill(r.att), !.stages = Append(@, "masked_fill")]
       IN  Both(F(run[1]), F(run[2]), "softmax")

\* lines 59-60
ASoftmax ==
    /\ apc = "softmax"
    /\ LET F(r) == [r EXCEPT !.att = Softmax(r.att),
                             !.stages = @ \o <<"softmax", "attn_dropout">>]
       IN  Both(F(run[1]), F(run[2]), "values")

\* line 61
AValues ==
    /\ apc = "values"
    /\ LET F(r) == [r EXCEPT !.y = WeightedSum(r.att, r.v),
                             !.stages = Append(@, "weighted_sum")]
       IN  Both(F(run[1]), F(run[2]), "merge")

\* line 62: the heads are put side by side
AMerge ==
    /\ apc = "merge"
    /\ LET F(r) == [r EXCEPT !.y = MergeHeads(r.y), !.stages = Append(@, "merge_heads")]
       IN  Both(F(run[1]), F(run[2]), "return")

\* lines 63-64: residual dropout, and y is returned
AReturn ==
    /\ apc = "return"
    /\ LET F(r) == [r EXCEPT !.out = r.y, !.stages = @ \o <<"resid_dropout", "return">>]
       IN  Both(F(run[1]), F(run[2]), "residual")

\* line 93: x = x + self.attn(...)
AResidual ==
    /\ apc = "residual"
    /\ LET F(r) == [r EXCEPT !.x = Add(r.x, r.out), !.stages = Append(@, "add")]
       IN  Both(F(run[1]), F(run[2]), "ln_2")

\* line 94: self.ln_2(x)
ALn2 ==
    /\ apc = "ln_2"
    /\ LET F(r) == [r EXCEPT !.h = LayerNorm(r.x), !.stages = Append(@, "ln_2")]
       IN  Both(F(run[1]), F(run[2]), "fc")

\* lines 76-77: fc and gelu
AFc ==
    /\ apc = "fc"
    /\ LET F(r) == [r EXCEPT !.h = Gelu(Linear(Blk.fc, r.h)), !.stages = @ \o <<"fc", "gelu">>]
       IN  Both(F(run[1]), F(run[2]), "project")

\* lines 78-80: project and the MLP dropout
AProject ==
    /\ apc = "project"
    /\ LET F(r) == [r EXCEPT !.h = Linear(Blk.project, r.h),
                             !.stages = @ \o <<"project", "mlp.dropout">>]
       IN  Both(F(run[1]), F(run[2]), "mlp_add")

\* line 94: x = x + self.mlp(...), and the loop of lines 150-151
AMlpAdd ==
    /\ apc = "mlp_add"
    /\ run' = <<[run[1] EXCEPT !.x = Add(run[1].x, run[1].h), !.stages = Append(@, "add")],
                [run[2] EXCEPT !.x = Add(run[2].x, run[2].h), !.stages = Append(@, "add")]>>
    /\ IF lay < net.n_layer
       THEN /\ lay' = lay + 1
            /\ apc' = "ln_1"
       ELSE /\ lay' = lay
            /\ apc' = "ln_f"
    /\ UNCHANGED net
    /\ UNCHANGED <<gptVars, prepVars>>

\* line 152
ALnF ==
    /\ apc = "ln_f"
    /\ LET F(r) == [r EXCEPT !.x = LayerNorm(r.x), !.stages = Append(@, "layer_norm")]
       IN  Both(F(run[1]), F(run[2]), "logits")

\* lines 153-159
ALogits ==
    /\ apc = "logits"
    /\ LET F(r) == [r EXCEPT !.logits = Logits(net, r.x, net.targets),
                             !.stages = Append(@, "linear_transform")]
       IN  Both(F(run[1]), F(run[2]), "done")

NextAttn ==
    \/ AEmbed
    \/ ALn1
    \/ AAttn
    \/ ASplit
    \/ AScores
    \/ AMask
    \/ ASoftmax
    \/ AValues
    \/ AMerge
    \/ AReturn
    \/ AResidual
    \/ ALn2
    \/ AFc
    \/ AProject
    \/ AMlpAdd
    \/ ALnF
    \/ ALogits

SpecAttn == InitAttn /\ [][NextAttn]_vars

-----------------------------------------------------------------------------
(* Claims about the forward pass, checked under SpecAttn.                  *)

\* the two inputs agree on positions 1..i
AgreeUpTo(i) == \A m \in 1..i : run[1].idx[m] = run[2].idx[m]

\* the softmax rows have been computed and not yet consumed
RowsReady == apc = "values"

\* C3: future-blindness.  For two inputs that agree on all positions up to i
\* the residual stream at position i is the same at every stage of the pass
\* and so are the final hidden state and the logits at position i; and after
\* the softmax the weight of every position j > i in row i is zero.
C3_FutureBlind ==
    /\ \A i \in 1..Len(run[1].idx) :
          AgreeUpTo(i) =>
             /\ run[1].x # <<>> => run[1].x[i] = run[2].x[i]
             /\ (apc = "done" /\ net.targets) => run[1].logits[i] = run[2].logits[i]
    /\ RowsReady =>
          \A r \in 1..2, h \in 1..net.n_head, i \in 1..Len(run[1].idx), j \in 1..Len(run[1].idx) :
             j > i => run[r].att[h][i].num[j] = 0

C3_Witness ==
    /\ apc = "done"
    /\ net.targets
    /\ Len(run[1].idx) = MaxCtx
    /\ AgreeUpTo(1)
    /\ run[1].idx[2] # run[2].idx[2]
    /\ run[1].logits[1] = run[2].logits[1]
    /\ run[1].logits[2] # run[2].logits[2]

\* what the attention layer hands back to the block
AttnReturned == apc = "residual"

\* C9: every attention forward pass ends with the weighted sum of values,
\* the recombination of the heads, the output projection and the residual
\* dropout, in this order: what it returns is the projection (proj) of the
\* recombined heads.
C9_ProjectionApplied ==
    AttnReturned =>
       \A r \in 1..2 :
          /\ Len(run[r].stages) >= 5
          /\ SubSeq(run[r].stages, Len(run[r].stages) - 4, Len(run[r].stages))
                = <<"weighted_sum", "merge_heads", "proj", "resid_dropout", "return">>
          /\ run[r].out = Linear(Blk.proj, run[r].y)

-----------------------------------------------------------------------------
(* prepare.py.  A character is its code point.  A text, and likewise a     *)
(* list of ids, is kept as a sequence of runs [lo, n] standing for the n    *)
(* consecutive values lo, lo + 1, ..., lo + n - 1, so that a corpus with    *)
(* more than 2^16 distinct characters stays small.                          *)

MaxCodePoint == 2        \* short corpora use the characters 0..MaxCodePoint
MaxCorpusLen == 3        \* and have up to MaxCorpusLen characters
Uint16Modulus == 65536   \* np.uint16 holds 0..65535

RunOf(lo, n) == [lo |-> lo, n |-> n]

RECURSIVE RunsLen(_)
RunsLen(rs) == IF rs = <<>> THEN 0 ELSE Head(rs).n + RunsLen(Tail(rs))   \* len()

\* the element at position p, counted from 1
RECURSIVE At(_, _)
At(rs, p) == IF p <= Head(rs).n THEN Head(rs).lo + p - 1 ELSE At(Tail(rs), p - Head(rs).n)

\* s[:m]
RECURSIVE Take(_, _)
Take(rs, m) ==
    IF m = 0 \/ rs = <<>> THEN <<>>
    ELSE IF Head(rs).n <= m THEN <<Head(rs)>> \o Take(Tail(rs), m - Head(rs).n)
    ELSE <<RunOf(Head(rs).lo, m)>>

\* s[m:]
RECURSIVE Drop(_, _)
Drop(rs, m) ==
    IF m = 0 \/ rs = <<>> THEN rs
    ELSE IF Head(rs).n <= m THEN Drop(Tail(rs), m - Head(rs).n)
    ELSE <<RunOf(Head(rs).lo + m, Head(rs).n - m)>> \o Tail(rs)

\* line 10: set(data)
CharSet(rs) == UNION {rs[k].lo..(rs[k].lo + rs[k].n - 1) : k \in 1..Len(rs)}

\* a finite set of numbers in increasing order
RECURSIVE Ascending(_)
Ascending(S) ==
    IF S = {} THEN <<>>
    ELSE LET least == CHOOSE x \in S : \A y \in S : x <= y
         IN  <<least>> \o Ascending(S \ {least})

\* line 10: sorted(list(set(data))), as runs: one run for each maximal stretch
\* of consecutive characters of the set
SortedChars(rs) ==
    LET S      == CharSet(rs)
        firsts == Ascending({c \in S : c - 1 \notin S})
        lasts  == Ascending({c \in S : c + 1 \notin S})
    IN  [k \in 1..Len(firsts) |-> RunOf(firsts[k], lasts[k] - firsts[k] + 1)]

\* lines 15: stoi[ch], the index enumerate() gives ch in chars
RECURSIVE Stoi(_, _)
Stoi(chars, ch) ==
    IF ch < Head(chars).lo + Head(chars).n THEN ch - Head(chars).lo
    ELSE Head(chars).n + Stoi(Tail(chars), ch)

\* lines 19-20: encode.  The characters of a run all occur in the corpus, so
\* their ids are consecutive as well
Encode(chars, rs) == [k \in 1..Len(rs) |-> RunOf(Stoi(chars, rs[k].lo), rs[k].n)]

\* line 28: int(n * 0.9)
SplitPoint(n) == (9 * n) \div 10

\* largest value of a list of ids, -1 for the empty list
RECURSIVE MaxId(_)
MaxId(rs) ==
    IF rs = <<>> THEN -1
    ELSE LET m == MaxId(Tail(rs)) h == Head(rs).lo + Head(rs).n - 1
         IN  IF h > m THEN h ELSE m

\* lines 37-38: np.array(ids, dtype=np.uint16) where out-of-range values wrap:
\* every element is reduced modulo 2^16
RECURSIVE AsUint16(_)
AsUint16(rs) ==
    IF rs = <<>> THEN <<>>
    ELSE LET lo == Head(rs).lo % Uint16Modulus
             first == IF Head(rs).n <= Uint16Modulus - lo THEN Head(rs).n
                      ELSE Uint16Modulus - lo
         IN  <<RunOf(lo, first)>> \o
             AsUint16(IF first = Head(rs).n THEN Tail(rs)
                      ELSE <<RunOf(Head(rs).lo + first, Head(rs).n - first)>> \o Tail(rs))

ShortCorpora == {[k \in 1..Len(s) |-> RunOf(s[k], 1)] : s \in SeqsUpTo(0..MaxCodePoint, MaxCorpusLen)}

\* corpora whose alphabet is around 2^16 characters: the characters
\* 0..K-1 once each, then at most one more character
LongCorpora ==
    {<<RunOf(0, K)>> \o tail :
        K \in {Uint16Modulus - 1, Uint16Modulus, Uint16Modulus + 1},
        tail \in {<<>>} \cup {<<RunOf(c, 1)>> : c \in {0, Uint16Modulus - 1, Uint16Modulus + 1}}}

NoPrep == [data |-> <<>>, chars |-> <<>>, vocab_size |-> 0, n |-> 0,
           train_data |-> <<>>, val_data |-> <<>>, train_ids |-> <<>>, val_ids |-> <<>>,
           files |-> {}, train_bin |-> <<>>, val_bin |-> <<>>, error |-> "none"]

\* lines 7-8: data = f.read()
InitPrep ==
    /\ GptIdle
    /\ AttnIdle
    /\ ppc = "vocab"
    /\ \E data \in ShortCorpora \cup LongCorpora : prep = [NoPrep EXCEPT !.data = data]

\* lines 10-16
PVocab ==
    /\ ppc = "vocab"
    /\ prep' = [prep EXCEPT !.chars = SortedChars(prep.data),
                            !.vocab_size = RunsLen(SortedChars(prep.data))]
    /\ ppc' = "split"
    /\ UNCHANGED <<gptVars, attnVars>>

\* lines 27-29
PSplit ==
    /\ ppc = "split"
    /\ prep' = [prep EXCEPT !.n = RunsLen(prep.data),
                            !.train_data = Take(prep.data, SplitPoint(RunsLen(prep.data))),
                            !.val_data = Drop(prep.data, SplitPoint(RunsLen(prep.data)))]
    /\ ppc' = "encode"
    /\ UNCHANGED <<gptVars, attnVars>>

\* lines 31-32
PEncode ==
    /\ ppc = "encode"
    /\ prep' = [prep EXCEPT !.train_ids = Encode(prep.chars, prep.train_data),
                            !.val_ids = Encode(prep.chars, prep.val_data)]
    /\ ppc' = "convert"
    /\ UNCHANGED <<gptVars, attnVars>>

Fits(ids) == MaxId(ids) < Uint16Modulus

\* lines 37-38.  An id that does not fit 16 bits is reduced modulo 2^16 by
\* numpy 1.x and refused with OverflowError by numpy 2.x
PConvert ==
    /\ ppc = "convert"
    /\ \E numpy \in {"1.x", "2.x"} :
          IF numpy = "2.x" /\ ~(Fits(prep.train_ids) /\ Fits(prep.val_ids))
          THEN /\ prep' = [prep EXCEPT !.error = "OverflowError"]
               /\ ppc' = "failed"
          ELSE /\ prep' = [prep EXCEPT !.train_ids = AsUint16(prep.train_ids),
                                       !.val_ids = AsUint16(prep.val_ids)]
               /\ ppc' = "write"
    /\ UNCHANGED <<gptVars, attnVars>>

\* lines 40-50: train.bin, val.bin and meta.pkl
PWrite ==
    /\ ppc = "write"
    /\ prep' = [prep EXCEPT !.train_bin = prep.train_ids,
                            !.val_bin = prep.val_ids,
                            !.files = {"train.bin", "val.bin", "meta.pkl"}]
    /\ ppc' = "done"
    /\ UNCHANGED <<gptVars, attnVars>>

NextPrep ==
    \/ PVocab
    \/ PSplit
    \/ PEncode
    \/ PConvert
    \/ PWrite

SpecPrep == InitPrep /\ [][NextPrep]_vars

\* the ids the sorted-character mapping assigns to the characters of a text
IdsOf(text) == Encode(SortedChars(prep.data), text)

\* a file holds, position by position, the given ids, all below vocab_size
HoldsIds(bin, ids) ==
    /\ RunsLen(bin) = RunsLen(ids)
    /\ \A p \in 1..RunsLen(ids) :
          /\ At(bin, p) = At(ids, p)
          /\ At(bin, p) \in 0..(prep.vocab_size - 1)

\* C10: for every corpus, each token id stored in train.bin and val.bin is
\* the integer the sorted-character mapping assigns to the corresponding
\* character and lies in [0, vocab_size): storing as unsigned 16-bit never
\* alters an id, whatever the number of distinct characters.
C10_StoredIdsExact ==
    ppc = "done" =>
       /\ HoldsIds(prep.train_bin, IdsOf(prep.train_data))
       /\ HoldsIds(prep.val_bin, IdsOf(prep.val_data))

====
